---- MODULE Spec2Model ----
(***************************************************************************)
(* Model of the ICE.ir incremental ETL pipeline (AutoTrowel): the          *)
(* paginated fetch loop, the record parser with its date normalisation,    *)
(* the key-based delta detection and the append to the sink.               *)
(*                                                                         *)
(* Python values are tagged records [t, v]; a Python str is a sequence of  *)
(* one-character strings, so that slicing, isdigit, translate and the      *)
(* regular-expression strip are computed character by character.  The      *)
(* Persian digit glyphs are written "p0" .. "p9".                          *)
(***************************************************************************)
EXTENDS Integers, Sequences, FiniteSets, TLC

VARIABLES source, sink, run, clock, started, dirty, hist,
          page, store, scraper, call

vars == <<source, sink, run, clock, started, dirty, hist, page, store, scraper, call>>

----------------------------------------------------------------------------
(* Python values *)

PyNone == [t |-> "None", v |-> <<>>]
PyStr(s) == [t |-> "str", v |-> s]
PyInt(n) == [t |-> "int", v |-> <<n>>]
PyDatetime(y, m, d) == [t |-> "datetime", v |-> <<y, m, d>>]

\* Python truthiness: None, "", and 0 are false.
Truthy(x) ==
    CASE x.t = "None" -> FALSE
      [] x.t = "str" -> x.v # <<>>
      [] x.t = "int" -> x.v[1] # 0
      [] OTHER -> TRUE

\* The outcome of a call: a value, or an exception that propagates.
Ok(x) == [exc |-> "", val |-> x]
Raise(e) == [exc |-> e, val |-> PyNone]

----------------------------------------------------------------------------
(* Characters *)

AsciiDigits == <<"0", "1", "2", "3", "4", "5", "6", "7", "8", "9">>
PersianDigits == <<"p0", "p1", "p2", "p3", "p4", "p5", "p6", "p7", "p8", "p9">>

\* the Arabic-Indic digit glyphs U+0660 .. U+0669, which the translation
\* table of clean_persian_number does not hold
ArabicDigits == <<"a0", "a1", "a2", "a3", "a4", "a5", "a6", "a7", "a8", "a9">>

IsAsciiDigit(c) == \E i \in 1..10 : AsciiDigits[i] = c
IsPersianDigit(c) == \E i \in 1..10 : PersianDigits[i] = c
IsArabicDigit(c) == \E i \in 1..10 : ArabicDigits[i] = c
\* str.isdigit, int(), float() and the pattern \d all accept every Unicode
\* decimal digit, the Persian and the Arabic-Indic glyphs included.
IsUnicodeDigit(c) == IsAsciiDigit(c) \/ IsPersianDigit(c) \/ IsArabicDigit(c)

DigitVal(c) ==
    IF IsAsciiDigit(c) THEN (CHOOSE i \in 1..10 : AsciiDigits[i] = c) - 1
    ELSE IF IsPersianDigit(c) THEN (CHOOSE i \in 1..10 : PersianDigits[i] = c) - 1
    ELSE (CHOOSE i \in 1..10 : ArabicDigits[i] = c) - 1

AllDigits(s) == \A i \in 1..Len(s) : IsUnicodeDigit(s[i])

\* int(s) for a non-empty string of digits
RECURSIVE NumOf(_)
NumOf(s) ==
    IF s = <<>> THEN 0
    ELSE 10 * NumOf(SubSeq(s, 1, Len(s) - 1)) + DigitVal(s[Len(s)])

\* '%0<w>d' % n
RECURSIVE Pad(_, _)
Pad(n, w) ==
    IF w = 0 /\ n = 0 THEN <<>>
    ELSE Append(Pad(n \div 10, IF w = 0 THEN 0 ELSE w - 1), AsciiDigits[(n % 10) + 1])

\* s[a:b] with Python's clamping (0-based, half-open)
Slice(s, a, b) ==
    LET hi == IF b > Len(s) THEN Len(s) ELSE b
    IN  IF a >= hi THEN <<>> ELSE SubSeq(s, a + 1, hi)

Contains(s, c) == \E i \in 1..Len(s) : s[i] = c

\* the position of the first c in s (0 when absent)
FirstPos(s, c) ==
    IF Contains(s, c) THEN CHOOSE i \in 1..Len(s) : s[i] = c /\ \A j \in 1..(i - 1) : s[j] # c
    ELSE 0

----------------------------------------------------------------------------
(* Static tables *)

PAGE_SIZE == 1000

\* RetryConfig.max_attempts
max_attempts == 3

\* the instrument ids in the order of the dict literal
CurrencyIds == <<14, 15, 18, 19, 26, 27, 34, 35, 38, 39, 42, 43, 50, 51, 71, 72>>

\* CURRENCY_TYPES with every instrument a Bill
CURRENCY_TYPES_all_bill == [i \in {CurrencyIds[k] : k \in DOMAIN CurrencyIds} |-> "Bill"]

CURRENCY_TYPES ==
    [i \in {14, 18, 26, 34, 38, 42, 50, 71} |-> "Bill"] @@
    [i \in {15, 19, 27, 35, 39, 43, 51, 72} |-> "WireTransfer"]

CURRENCY_TYPE_FA == [Bill |-> "eskenas", WireTransfer |-> "havaleh"]

CURRENCY_META ==
    [i \in {14, 15} |-> [symbol |-> "USD", name |-> "dolar"]] @@
    [i \in {34, 35} |-> [symbol |-> "EUR", name |-> "yuro"]] @@
    [i \in {18, 19} |-> [symbol |-> "AED", name |-> "derham"]] @@
    [i \in {26, 27} |-> [symbol |-> "JPY", name |-> "yen"]] @@
    [i \in {38, 39} |-> [symbol |-> "RUB", name |-> "rubl"]] @@
    [i \in {42, 43} |-> [symbol |-> "CNY", name |-> "yuan"]] @@
    [i \in {50, 51} |-> [symbol |-> "IQD", name |-> "dinar"]] @@
    [i \in {71, 72} |-> [symbol |-> "INR", name |-> "rupiye"]]

\* build_currency_urls: one entry per CURRENCY_TYPES item, in dict order
build_currency_urls ==
    [k \in 1..Len(CurrencyIds) |->
        LET id == CurrencyIds[k]
            ctype == CURRENCY_TYPES[id]
        IN  [currency_id |-> id,
             ctype |-> ctype,
             url |-> [market |-> IF ctype = "Bill" THEN 1 ELSE 2, currency_id |-> id]]]

----------------------------------------------------------------------------
(* Calendars *)

\* jdatetime.date.isleap
JalaliIsLeap(y) == (y % 33) \in {1, 5, 9, 13, 17, 22, 26, 30}

JalaliDaysInMonth(y, m) ==
    IF m <= 6 THEN 31
    ELSE IF m <= 11 THEN 30
    ELSE IF JalaliIsLeap(y) THEN 30 ELSE 29

\* jdatetime.date(y, m, d) accepts exactly these
JalaliValid(y, m, d) ==
    /\ y \in 1..9377
    /\ m \in 1..12
    /\ d \in 1..JalaliDaysInMonth(y, m)

GregorianIsLeap(y) == (y % 4 = 0 /\ y % 100 # 0) \/ y % 400 = 0

GregorianDaysInMonth(y, m) ==
    IF m = 2 THEN (IF GregorianIsLeap(y) THEN 29 ELSE 28)
    ELSE IF m \in {4, 6, 9, 11} THEN 30 ELSE 31

GregorianValid(y, m, d) ==
    /\ y \in 1..9999
    /\ m \in 1..12
    /\ d \in 1..GregorianDaysInMonth(y, m)

GregorianDaysBeforeMonth == <<0, 31, 59, 90, 120, 151, 181, 212, 243, 273, 304, 334>>

\* jdatetime.date.fromgregorian: <<jy, jm, jd>> of a Gregorian date.
\* The day count from the epoch is split into 33-year cycles, 4-year
\* groups, years, and then the months of 31 and of 30 days.
G2JMonthDay(jy, days) ==
    IF days < 186 THEN <<jy, 1 + (days \div 31), 1 + (days % 31)>>
    ELSE <<jy, 7 + ((days - 186) \div 30), 1 + ((days - 186) % 30)>>

G2JYear(jy1, days2) ==
    IF days2 > 365 THEN G2JMonthDay(jy1 + ((days2 - 1) \div 365), (days2 - 1) % 365)
    ELSE G2JMonthDay(jy1, days2)

G2JGroup(jy0, days1) == G2JYear(jy0 + 4 * (days1 \div 1461), days1 % 1461)

G2JCycle(days0) == G2JGroup(-1595 + 33 * (days0 \div 12053), days0 % 12053)

G2JDays(gy, gy2, gm, gd) ==
    355666 + 365 * gy + ((gy2 + 3) \div 4) - ((gy2 + 99) \div 100)
    + ((gy2 + 399) \div 400) + gd + GregorianDaysBeforeMonth[gm]

GregorianToJalali(gy, gm, gd) == G2JCycle(G2JDays(gy, IF gm > 2 THEN gy + 1 ELSE gy, gm, gd))

----------------------------------------------------------------------------
(* JDate *)

\* jdatetime's strftime with the format after the replace chain of
\* JDate.format: %Y is str(year), %m and %d are two digits, every other
\* character stands for itself.
RECURSIVE JalaliStrftime(_, _)
JalaliStrftime(jd, fmt) ==
    IF fmt = <<>> THEN <<>>
    ELSE LET c == Head(fmt)
             piece == CASE c = "Y" -> Pad(jd[1], 1)
                        [] c = "m" -> Pad(jd[2], 2)
                        [] c = "d" -> Pad(jd[3], 2)
                        [] OTHER -> <<c>>
         IN  piece \o JalaliStrftime(jd, Tail(fmt))

\* the text before the first c of s, and the text after it
Before(s, c) == Slice(s, 0, FirstPos(s, c) - 1)
After(s, c) == Slice(s, FirstPos(s, c), Len(s))

\* the fields matched by %Y, %m and %d
StrptimeFields(ys, ms, ds) ==
    IF /\ Len(ys) = 4 /\ AllDigits(ys)
       /\ Len(ms) \in 1..2 /\ AllDigits(ms)
       /\ Len(ds) \in 1..2 /\ AllDigits(ds)
    THEN <<NumOf(ys), NumOf(ms), NumOf(ds)>>
    ELSE <<>>

StrptimeDate(g) ==
    IF g # <<>> /\ GregorianValid(g[1], g[2], g[3]) THEN g ELSE <<>>

StrptimeRest(ys, rest) ==
    IF Contains(rest, "-")
    THEN StrptimeDate(StrptimeFields(ys, Before(rest, "-"), After(rest, "-")))
    ELSE <<>>

\* datetime.strptime(s, "%Y-%m-%d"): <<y, m, d>>, or <<>> for ValueError
Strptime(s) ==
    IF Contains(s, "-") THEN StrptimeRest(Before(s, "-"), After(s, "-")) ELSE <<>>

\* jdatetime.date(y, m, d).strftime(...), ValueError for a date that is none
JalaliDate(j, fmt) ==
    IF JalaliValid(j[1], j[2], j[3]) THEN Ok(PyStr(JalaliStrftime(j, fmt)))
    ELSE Raise("ValueError")

\* jdatetime.date.fromgregorian of a parsed date (<<>>: strptime raised)
FromGregorian(g, fmt) ==
    IF g = <<>> THEN Raise("ValueError")
    ELSE JalaliDate(GregorianToJalali(g[1], g[2], g[3]), fmt)

\* JDate(value).format(fmt)
JDateFormat(value, fmt) ==
    IF ~Truthy(value) \/ value = PyStr(<<"n", "u", "l", "l">>) THEN Ok(PyNone)
    ELSE IF value.t = "str" /\ AllDigits(value.v) /\ Len(value.v) = 8 THEN
        JalaliDate(<<NumOf(Slice(value.v, 0, 4)),
                     NumOf(Slice(value.v, 4, 6)),
                     NumOf(Slice(value.v, 6, 8))>>, fmt)
    ELSE IF value.t = "str" /\ Contains(value.v, "-") THEN
        FromGregorian(Strptime(value.v), fmt)
    ELSE IF value.t = "datetime" THEN FromGregorian(value.v, fmt)
    ELSE Ok(PyNone)

----------------------------------------------------------------------------
(* Helper functions *)

\* str.translate with the Persian-to-ASCII table
Translate(s) ==
    [i \in 1..Len(s) |-> IF IsPersianDigit(s[i]) THEN AsciiDigits[DigitVal(s[i]) + 1] ELSE s[i]]

\* re.sub(r'[^\d]', '', s)
RECURSIVE StripNonDigits(_)
StripNonDigits(s) ==
    IF s = <<>> THEN <<>>
    ELSE IF IsUnicodeDigit(Head(s)) THEN <<Head(s)>> \o StripNonDigits(Tail(s))
    ELSE StripNonDigits(Tail(s))

\* `x or None` for a str x
OrNone(s) == IF s = <<>> THEN PyNone ELSE PyStr(s)

clean_persian_number(text) ==
    IF ~Truthy(text) THEN PyNone
    ELSE OrNone(StripNonDigits(Translate(text.v)))

DashJoin(s) == Slice(s, 0, 4) \o <<"-">> \o Slice(s, 4, 6) \o <<"-">> \o Slice(s, 6, 8)

correct_date_format(jalali_date) ==
    IF ~Truthy(jalali_date) THEN PyNone ELSE PyStr(DashJoin(jalali_date.v))

----------------------------------------------------------------------------
(* Record parser *)

RECURSIVE LStrip(_)
LStrip(s) == IF s # <<>> /\ Head(s) = " " THEN LStrip(Tail(s)) ELSE s
RECURSIVE RStrip(_)
RStrip(s) == IF s # <<>> /\ s[Len(s)] = " " THEN RStrip(SubSeq(s, 1, Len(s) - 1)) ELSE s

\* int(float(x)): the integer part, truncated towards zero.  A str is
\* accepted when, stripped of blanks, it is an optional sign and digits
\* with at most one point and at least one digit; the strings of the model
\* hold no exponent, "inf" or "nan".
FloatParts(sign, ip, fp) ==
    IF AllDigits(ip) /\ AllDigits(fp) /\ Len(ip) + Len(fp) > 0
    THEN Ok(PyInt(sign * NumOf(ip)))
    ELSE Raise("ValueError")

FloatBody(sign, body) ==
    IF Contains(body, ".") THEN FloatParts(sign, Before(body, "."), After(body, "."))
    ELSE FloatParts(sign, body, <<>>)

FloatStr(s) ==
    IF s # <<>> /\ Head(s) = "-" THEN FloatBody(-1, Tail(s))
    ELSE IF s # <<>> /\ Head(s) = "+" THEN FloatBody(1, Tail(s))
    ELSE FloatBody(1, s)

IntFloat(x) ==
    CASE x.t = "int" -> Ok(x)
      [] x.t = "str" -> FloatStr(RStrip(LStrip(x.v)))
      [] OTHER -> Raise("TypeError")

\* int(float(p)) if p and p != 'null' else None
PriceOf(p) ==
    IF Truthy(p) /\ p # PyStr(<<"n", "u", "l", "l">>) THEN IntFloat(p) ELSE Ok(PyNone)

FmtYmd == <<"Y", "-", "m", "-", "d">>

\* parse_item(item, now, currency_id): Ok(record), Ok(PyNone) for an id
\* without metadata, or the first exception of the dict literal, whose
\* values are evaluated in order.
\* the dict literal of parse_item, its values evaluated in order
ParsedRecord(meta, ctype, date, sell, buy, now) ==
    IF date.exc # "" THEN [exc |-> date.exc, val |-> PyNone, at |-> "date"]
    ELSE IF sell.exc # "" THEN [exc |-> sell.exc, val |-> PyNone, at |-> "sell_price"]
    ELSE IF buy.exc # "" THEN [exc |-> buy.exc, val |-> PyNone, at |-> "buy_price"]
    ELSE [exc |-> "", at |-> "",
          val |-> [Date |-> date.val,
                   Name |-> meta.name,
                   SellPrice |-> sell.val,
                   BuyPrice |-> buy.val,
                   Symbol |-> meta.symbol,
                   PersianCurrencyType |-> CURRENCY_TYPE_FA[ctype],
                   EnglishCurrencyType |-> ctype,
                   PersianAssetType |-> "arz",
                   EnglishAssetType |-> "Currency",
                   ScrapeDate |-> now,
                   Scrapetime |-> now,
                   ScrapeDateTime |-> now]]

\* parse_item with CURRENCY_META[currency_id] for CURRENCY_META.get
parse_item_indexing(item, now, currency_id) ==
    IF currency_id \notin DOMAIN CURRENCY_META
    THEN [exc |-> "KeyError", at |-> "meta", val |-> PyNone]
    ELSE ParsedRecord(CURRENCY_META[currency_id], CURRENCY_TYPES[currency_id],
                      JDateFormat(item.date, FmtYmd),
                      PriceOf(item.sell_price), PriceOf(item.buy_price), now)

parse_item(item, now, currency_id) ==
    IF currency_id \notin DOMAIN CURRENCY_META THEN [exc |-> "", at |-> "", val |-> PyNone]
    ELSE ParsedRecord(CURRENCY_META[currency_id], CURRENCY_TYPES[currency_id],
                      JDateFormat(item.date, FmtYmd),
                      PriceOf(item.sell_price), PriceOf(item.buy_price), now)

----------------------------------------------------------------------------
(* Bounds of the model *)

\* runs of incremental_load started in one behaviour
MaxRuns == 3
\* pages the fetch loop may request from a source that never ends
MaxPages == 4

----------------------------------------------------------------------------
(* The source API *)

\* D8(1401, 1, 1) is the string '14010101', Iso(2022, 3, 21) is '2022-03-21'
D8(y, m, d) == PyStr(Pad(y, 4) \o Pad(m, 2) \o Pad(d, 2))
Iso(y, m, d) == PyStr(Pad(y, 4) \o <<"-">> \o Pad(m, 2) \o <<"-">> \o Pad(d, 2))
NullStr == PyStr(<<"n", "u", "l", "l">>)

RawItem(date, sell, buy) == [date |-> date, sell_price |-> sell, buy_price |-> buy]

ItemA == RawItem(D8(1401, 1, 1), PyStr(<<"2", "8", "5", "0", "0">>), PyStr(<<"2", "8", "3", "0", "0">>))
ItemB == RawItem(D8(1401, 1, 2), PyStr(<<"2", "9", ".", "7">>), PyInt(29))
ItemNull == RawItem(PyNone, NullStr, PyNone)
ItemIso == RawItem(Iso(2022, 3, 21), PyInt(0), PyStr(<<"0">>))
ItemBadPrice == RawItem(D8(1401, 1, 3), PyStr(<<"a", "b", "c">>), PyNone)

\* One page of the response JSON {results: [...], count: int}; has_count
\* is FALSE when the response carries no count field.
Page(results, count) == [results |-> results, count |-> count, has_count |-> TRUE]
PageNoCount(results) == [results |-> results, count |-> 0, has_count |-> FALSE]

\* A source either holds a list of pages (and answers every further offset
\* with an empty page), or never ends: every page non-empty and the count
\* always beyond the next offset, or holds a fixed list of records, each
\* known by its id, and answers a request with the records at the
\* positions [offset, offset + limit) and the length of the list as count.
PagedSource(pages) == [kind |-> "pages", pages |-> pages, records |-> <<>>]
EndlessSource == [kind |-> "endless", pages |-> <<>>, records |-> <<>>]
EmptySource == PagedSource(<<>>)
ListSource(n) == [kind |-> "list", pages |-> <<>>, records |-> [i \in 1..n |-> i]]

\* the JSON the source returns to GET url?limit=PAGE_SIZE&offset=offset
Respond(src, offset) ==
    IF src.kind = "endless" THEN Page(<<ItemA>>, offset + 2 * PAGE_SIZE)
    ELSE IF src.kind = "list"
    THEN Page(SubSeq(src.records, offset + 1,
                     IF offset + PAGE_SIZE < Len(src.records)
                     THEN offset + PAGE_SIZE ELSE Len(src.records)),
              Len(src.records))
    ELSE LET k == (offset \div PAGE_SIZE) + 1
         IN  IF k <= Len(src.pages) THEN src.pages[k] ELSE Page(<<>>, 0)

----------------------------------------------------------------------------
(* One run of the pipeline *)

IdleRun ==
    [pc |-> "idle", k |-> 1, offset |-> 0, all_results |-> <<>>, requests |-> <<>>,
     limit |-> 0, attempts |-> 0, now |-> 0, all_data |-> <<>>, df_new |-> <<>>,
     df_existing_keys |-> <<>>, df_delta |-> <<>>, exc |-> "", at |-> "",
     outcome |-> "", appends |-> 0]

Runs == DOMAIN run

\* ICEScraper before scrape_and_store is called
IdleScraper ==
    [pc |-> "idle", tenacity |-> TRUE, attempts |-> 0, load_exc |-> "", raw_data |-> <<>>,
     processed_df |-> <<>>, success |-> FALSE, returned |-> <<>>, exc |-> "",
     at |-> "", exit |-> -1, runs |-> 0]

\* no function of the module is being called on its own
NoCall == [fn |-> "", pc |-> "", arg |-> <<>>, out |-> <<>>]
Resting(r) == run[r].pc \in {"idle", "done", "raised"}

\* FetchIteration with the test `offset > count` for `offset >= count`
FetchIterationStrict(rr, data) ==
    IF data.results = <<>> THEN [rr EXCEPT !.pc = "parse"]
    ELSE IF rr.offset + PAGE_SIZE > (IF data.has_count THEN data.count ELSE 0)
         THEN [rr EXCEPT !.pc = "parse", !.all_results = @ \o data.results,
                         !.offset = @ + PAGE_SIZE]
         ELSE [rr EXCEPT !.all_results = @ \o data.results, !.offset = @ + PAGE_SIZE]

\* FetchIteration with a guard that ends the loop after three pages
FetchIterationGuarded(rr, data) ==
    IF data.results = <<>> THEN [rr EXCEPT !.pc = "parse"]
    ELSE IF \/ rr.offset + PAGE_SIZE >= (IF data.has_count THEN data.count ELSE 0)
            \/ rr.offset + PAGE_SIZE >= 3 * PAGE_SIZE
         THEN [rr EXCEPT !.pc = "parse", !.all_results = @ \o data.results,
                         !.offset = @ + PAGE_SIZE]
         ELSE [rr EXCEPT !.all_results = @ \o data.results, !.offset = @ + PAGE_SIZE]

\* FetchIteration with the loop going on when the response has no count
FetchIterationNoCountGoesOn(rr, data) ==
    IF data.results = <<>> THEN [rr EXCEPT !.pc = "parse"]
    ELSE IF data.has_count /\ rr.offset + PAGE_SIZE >= data.count
         THEN [rr EXCEPT !.pc = "parse", !.all_results = @ \o data.results,
                         !.offset = @ + PAGE_SIZE]
         ELSE [rr EXCEPT !.all_results = @ \o data.results, !.offset = @ + PAGE_SIZE]

\* FetchIteration with all_results replaced by each page, not extended
FetchIterationLastPage(rr, data) ==
    IF data.results = <<>> THEN [rr EXCEPT !.pc = "parse"]
    ELSE IF rr.offset + PAGE_SIZE >= (IF data.has_count THEN data.count ELSE 0)
         THEN [rr EXCEPT !.pc = "parse", !.all_results = data.results, !.offset = @ + PAGE_SIZE]
         ELSE [rr EXCEPT !.all_results = data.results, !.offset = @ + PAGE_SIZE]

\* FetchIteration with the offset advanced by the number of items received
FetchIterationByItems(rr, data) ==
    IF data.results = <<>> THEN [rr EXCEPT !.pc = "parse"]
    ELSE IF rr.offset + Len(data.results) >= (IF data.has_count THEN data.count ELSE 0)
         THEN [rr EXCEPT !.pc = "parse", !.all_results = @ \o data.results,
                         !.offset = @ + Len(data.results)]
         ELSE [rr EXCEPT !.all_results = @ \o data.results, !.offset = @ + Len(data.results)]

\* the body of `while True` in fetch_currency_history, from the response
\* data on: the run record after this iteration
FetchIteration(rr, data) ==
    LET results == data.results
        count == IF data.has_count THEN data.count ELSE 0
        offset2 == rr.offset + PAGE_SIZE
    IN  IF results = <<>> THEN [rr EXCEPT !.pc = "parse"]
        ELSE IF offset2 >= count
             THEN [rr EXCEPT !.pc = "parse", !.all_results = @ \o results, !.offset = offset2]
             ELSE [rr EXCEPT !.all_results = @ \o results, !.offset = offset2]

\* for item in items: parsed = parse_item(...); if parsed: all_data.append
\* The outcome is [exc, at, rows]: the first exception ends the loop.
RECURSIVE ParseLoop(_, _, _, _)
ParseLoopBody(parsed, rest, now, currency_id, acc) ==
    IF parsed.exc # "" THEN [exc |-> parsed.exc, at |-> parsed.at, rows |-> acc]
    ELSE ParseLoop(rest, now, currency_id,
                   IF parsed.val = PyNone THEN acc ELSE Append(acc, parsed.val))

ParseLoop(items, now, currency_id, acc) ==
    IF items = <<>> THEN [exc |-> "", at |-> "", rows |-> acc]
    ELSE ParseLoopBody(parse_item(Head(items), now, currency_id),
                       Tail(items), now, currency_id, acc)

\* df.replace([np.nan, "", "nan--"], None) on one cell
ReplaceNulls(x) ==
    IF x = PyStr(<<>>) \/ x = PyStr(<<"n", "a", "n", "-", "-">>) THEN PyNone ELSE x

\* pd.DataFrame(all_data), the clean-up of the Date column and the replace;
\* the frame keeps the default index 0 .. n-1 (position i holds label i-1)
MakeFrame(all_data) ==
    [i \in 1..Len(all_data) |->
        [all_data[i] EXCEPT !.Date = ReplaceNulls(correct_date_format(clean_persian_number(@)))]]

KeyOf(row) == <<row.Date, row.Symbol, row.EnglishCurrencyType>>
KeyFrame(df) == [i \in 1..Len(df) |-> KeyOf(df[i])]

\* SELECT [Date], [Symbol], [EnglishCurrencyType] FROM t WHERE [EnglishAssetType] = 'Currency'
load_existing_keys(table) ==
    LET RECURSIVE Sel(_)
        Sel(rows) ==
            IF rows = <<>> THEN <<>>
            ELSE IF Head(rows).EnglishAssetType = "Currency"
                 THEN <<KeyOf(Head(rows))>> \o Sel(Tail(rows))
                 ELSE Sel(Tail(rows))
    IN  Sel(table)

\* MergeIndicator with the null keys of SQL, which match nothing
RECURSIVE MergeIndicatorSqlNull(_, _)
MergeIndicatorSqlNull(new_keys, existing_keys) ==
    IF new_keys = <<>> THEN <<>>
    ELSE LET m == Cardinality({j \in 1..Len(existing_keys) :
                                  /\ existing_keys[j] = Head(new_keys)
                                  /\ Head(new_keys)[1] # PyNone})
             here == IF m = 0 THEN <<"left_only">> ELSE [j \in 1..m |-> "both"]
         IN  here \o MergeIndicatorSqlNull(Tail(new_keys), existing_keys)

\* The _merge column of new_keys.merge(existing_keys, on=key_cols,
\* how='left', indicator=True): the left rows in order, a left row that
\* matches m > 0 right rows giving m rows "both" (null keys match each
\* other), a left row without a match one row "left_only".
RECURSIVE MergeIndicator(_, _)
MergeIndicator(new_keys, existing_keys) ==
    IF new_keys = <<>> THEN <<>>
    ELSE LET m == Cardinality({j \in 1..Len(existing_keys) : existing_keys[j] = Head(new_keys)})
             here == IF m = 0 THEN <<"left_only">> ELSE [j \in 1..m |-> "both"]
         IN  here \o MergeIndicator(Tail(new_keys), existing_keys)

\* df.loc[mask] with a boolean Series: the mask is aligned on the index
\* labels of df, so row i of df is kept when the mask holds TRUE at label i.
\* (A left join never has fewer rows than its left frame, so every label of
\* df is in the mask.)
LocMask(df, mask) ==
    LET RECURSIVE Keep(_)
        Keep(i) ==
            IF i > Len(df) THEN <<>>
            ELSE (IF mask[i] THEN <<df[i]>> ELSE <<>>) \o Keep(i + 1)
    IN  Keep(1)

\* LeftOnly with the test for the rows found on both sides
LeftOnlyInverted(df_merged) == [i \in 1..Len(df_merged) |-> df_merged[i] = "both"]

\* df_merged['_merge'] == 'left_only'
LeftOnly(df_merged) == [i \in 1..Len(df_merged) |-> df_merged[i] = "left_only"]

find_new_records(df_new, df_existing_keys) ==
    LocMask(df_new, LeftOnly(MergeIndicator(KeyFrame(df_new), df_existing_keys)))

\* a CHAR(n) column stores a shorter string padded with blanks
RECURSIVE CharN(_, _)
CharN(x, n) ==
    IF x.t # "str" \/ Len(x.v) >= n THEN x ELSE CharN(PyStr(Append(x.v, " ")), n)

\* save_to_database that leaves out the rows whose key the table holds
save_to_database_new_keys_only(df, table) ==
    table \o SelectSeq([i \in 1..Len(df) |-> [df[i] EXCEPT !.Date = CharN(@, 10)]],
                       LAMBDA row : \A j \in 1..Len(table) : KeyOf(table[j]) # KeyOf(row))

\* df.to_sql(table, if_exists='append'): the table after the insert
save_to_database(df, table) ==
    IF df = <<>> THEN table
    ELSE table \o [i \in 1..Len(df) |-> [df[i] EXCEPT !.Date = CharN(@, 10)]]

----------------------------------------------------------------------------
(* Actions *)

\* history: hist.log lists the sink operations <<run, "load" | "save">> of
\* the runs in progress together; hist.last is the sink as the latest
\* completed run left it; dirty is FALSE exactly when the latest run to end
\* completed and the source has not changed since it started.
Finish(r, rr, sink2) ==
    /\ run' = [run EXCEPT ![r] = rr]
    /\ dirty' = (rr.pc # "done")
    /\ hist' = IF rr.pc = "done" THEN [hist EXCEPT !.last = sink2] ELSE hist

\* Fail with the records parsed so far appended when a fetch fails
FailAfterPartialSave(r, rr, exc, at) ==
    /\ Finish(r, [rr EXCEPT !.pc = "raised", !.exc = exc, !.at = at], sink)
    /\ sink' = IF at = "fetch" THEN save_to_database(MakeFrame(rr.all_data), sink) ELSE sink
    /\ UNCHANGED <<page, store, scraper, call, source, clock, started>>

Fail(r, rr, exc, at) ==
    /\ Finish(r, [rr EXCEPT !.pc = "raised", !.exc = exc, !.at = at], sink)
    /\ UNCHANGED <<page, store, scraper, call, source, sink, clock, started>>

\* the source changes between runs
ChangeSource(S) ==
    /\ \A r \in Runs : Resting(r)
    /\ started < MaxRuns
    /\ source' \in S \ {source}
    /\ dirty' = TRUE
    /\ UNCHANGED <<page, store, scraper, call, sink, run, clock, started, hist>>

\* incremental_load is called: process_all_currency_data takes the time
\* and starts on the first endpoint
Start(r) ==
    /\ Resting(r)
    /\ started < MaxRuns
    /\ run' = [run EXCEPT ![r] = [IdleRun EXCEPT !.pc = "fetch", !.now = clock]]
    /\ clock' = clock + 1
    /\ started' = started + 1
    /\ hist' = IF \A q \in Runs : Resting(q) THEN [hist EXCEPT !.log = <<>>] ELSE hist
    /\ UNCHANGED <<page, store, scraper, call, source, sink, dirty>>

\* one iteration of the loop of fetch_currency_history: a single
\* requests.get, whose failure (timeout, connection, HTTP status)
\* propagates at once
FetchPage(r) ==
    LET rr == run[r]
        src == source[build_currency_urls[rr.k].url.currency_id]
        sent == [rr EXCEPT !.requests = Append(@, rr.offset), !.limit = PAGE_SIZE,
                           !.attempts = 1]
    IN  /\ rr.pc = "fetch"
        /\ src.kind = "endless" => Len(rr.requests) < MaxPages
        /\ \/ /\ run' = [run EXCEPT ![r] = FetchIteration(sent, Respond(src, rr.offset))]
              /\ UNCHANGED <<page, store, scraper, call, source, sink, clock, started, dirty, hist>>
           \/ Fail(r, sent, "RequestException", "fetch")

\* the items of the endpoint are parsed; the loop goes to the next endpoint
Parsed(r, rr, out) ==
    IF out.exc # "" THEN Fail(r, rr, out.exc, out.at)
    ELSE /\ run' = [run EXCEPT ![r] =
                IF rr.k = Len(build_currency_urls)
                THEN [rr EXCEPT !.all_data = out.rows, !.pc = "frame"]
                ELSE [rr EXCEPT !.all_data = out.rows, !.pc = "fetch", !.k = @ + 1,
                                !.offset = 0, !.all_results = <<>>,
                                !.requests = <<>>, !.limit = 0, !.attempts = 0]]
         /\ UNCHANGED <<page, store, scraper, call, source, sink, clock, started, dirty, hist>>

ParseItems(r) ==
    /\ run[r].pc = "parse"
    /\ Parsed(r, run[r], ParseLoop(run[r].all_results, run[r].now,
                                   build_currency_urls[run[r].k].currency_id,
                                   run[r].all_data))

\* the end of process_all_currency_data and the test `if df_new.empty`
BuildFrame(r) ==
    LET rr == run[r]
    IN  /\ rr.pc = "frame"
        /\ IF rr.all_data = <<>>
           THEN /\ Finish(r, [rr EXCEPT !.pc = "done", !.outcome = "no_data"], sink)
                /\ UNCHANGED <<page, store, scraper, call, source, sink, clock, started>>
           ELSE /\ run' = [run EXCEPT ![r] = [rr EXCEPT !.df_new = MakeFrame(rr.all_data),
                                                        !.pc = "load"]]
                /\ UNCHANGED <<page, store, scraper, call, source, sink, clock, started, dirty, hist>>

LoadKeys(r) ==
    LET rr == run[r]
    IN  /\ rr.pc = "load"
        /\ \/ /\ run' = [run EXCEPT ![r] = [rr EXCEPT !.df_existing_keys = load_existing_keys(sink),
                                                      !.pc = "detect"]]
              /\ hist' = [hist EXCEPT !.log = Append(@, <<r, "load">>)]
              /\ UNCHANGED <<page, store, scraper, call, source, sink, clock, started, dirty>>
           \/ Fail(r, rr, "SQLAlchemyError", "load")

\* Detected without the test `if df_delta.empty`
DetectedAlwaysSaves(r, rr, delta) ==
    /\ run' = [run EXCEPT ![r] = [rr EXCEPT !.df_delta = delta, !.pc = "save"]]
    /\ UNCHANGED <<page, store, scraper, call, source, sink, clock, started, dirty, hist>>

\* find_new_records and the test `if df_delta.empty`
Detected(r, rr, delta) ==
    IF delta = <<>>
    THEN /\ Finish(r, [rr EXCEPT !.pc = "done", !.df_delta = delta, !.outcome = "up_to_date"], sink)
         /\ UNCHANGED <<page, store, scraper, call, source, sink, clock, started>>
    ELSE /\ run' = [run EXCEPT ![r] = [rr EXCEPT !.df_delta = delta, !.pc = "save"]]
         /\ UNCHANGED <<page, store, scraper, call, source, sink, clock, started, dirty, hist>>

Detect(r) ==
    /\ run[r].pc = "detect"
    /\ Detected(r, run[r], find_new_records(run[r].df_new, run[r].df_existing_keys))

Save(r) ==
    LET rr == run[r]
    IN  /\ rr.pc = "save"
        /\ \/ /\ sink' = save_to_database(rr.df_delta, sink)
              /\ run' = [run EXCEPT ![r] = [rr EXCEPT !.pc = "done", !.outcome = "inserted",
                                                      !.appends = @ + 1]]
              /\ dirty' = FALSE
              /\ hist' = [log |-> Append(hist.log, <<r, "save">>), last |-> sink']
              /\ UNCHANGED <<page, store, scraper, call, source, clock, started>>
           \/ Fail(r, rr, "SQLAlchemyError", "save")

----------------------------------------------------------------------------
(* Sources and specifications *)

RECURSIVE SeqsUpTo(_, _)
SeqsUpTo(S, n) ==
    IF n = 0 THEN {<<>>}
    ELSE LET shorter == SeqsUpTo(S, n - 1)
         IN  shorter \cup {Append(q, x) : q \in shorter, x \in S}

\* a source map: endpoints 14 and 15 hold data, the others are empty
SourceMap(s14, s15) ==
    [id \in DOMAIN CURRENCY_TYPES |->
        IF id = 14 THEN s14 ELSE IF id = 15 THEN s15 ELSE EmptySource]

\* a source that tells the truth: one page, count = number of records
OnePage(items) == IF items = <<>> THEN EmptySource ELSE PagedSource(<<Page(items, Len(items))>>)

SeqSources ==
    {SourceMap(OnePage(q), OnePage(w)) :
        q \in SeqsUpTo({ItemA, ItemB}, 2) \cup
              {<<ItemNull, ItemNull>>, <<ItemA, ItemIso>>, <<ItemA, ItemBadPrice>>},
        w \in {<<>>, <<ItemA>>}}
    \cup {SourceMap(PagedSource(<<Page(<<ItemA>>, 1001), Page(<<ItemB>>, 1001)>>), EmptySource)}

Init ==
    /\ source \in SeqSources
    /\ sink = <<>>
    /\ run = [r \in {1} |-> IdleRun]
    /\ clock = 1
    /\ started = 0
    /\ dirty = TRUE
    /\ page = <<>> /\ store = <<>> /\ scraper = IdleScraper /\ call = NoCall
    /\ hist = [log |-> <<>>, last |-> <<>>]

\* the steps of a run that has started
Proceed(r) ==
    \/ FetchPage(r)
    \/ ParseItems(r)
    \/ BuildFrame(r)
    \/ LoadKeys(r)
    \/ Detect(r)
    \/ Save(r)

Step(r) == Start(r) \/ Proceed(r)

\* one scheduled job: the runs follow one another, the source changes
\* between them
Next ==
    \/ ChangeSource(SeqSources)
    \/ \E r \in {1} : Step(r)

Spec == Init /\ [][Next]_vars

----------------------------------------------------------------------------
(* Two jobs started against the same source and sink *)

ConcSources ==
    {SourceMap(OnePage(q), OnePage(w)) :
        q \in {<<ItemA>>, <<ItemA, ItemB>>, <<ItemNull>>},
        w \in {<<>>, <<ItemA>>}}

InitConc ==
    /\ source \in ConcSources
    /\ sink = <<>>
    /\ run = [r \in {1, 2} |-> IdleRun]
    /\ clock = 1
    /\ started = 0
    /\ dirty = TRUE
    /\ page = <<>> /\ store = <<>> /\ scraper = IdleScraper /\ call = NoCall
    /\ hist = [log |-> <<>>, last |-> <<>>]

NextConc == \E r \in {1, 2} : Step(r)

SpecConc == InitConc /\ [][NextConc]_vars

----------------------------------------------------------------------------
(* fetch_currency_history on its own *)

FetchItems == {<<>>, <<ItemA>>}
FetchCounts == {0, 1000, 1001, 2000, 2500, 3000}

FetchPages ==
    {Page(q, c) : q \in FetchItems, c \in FetchCounts} \cup {PageNoCount(q) : q \in FetchItems}

FetchSources ==
    {PagedSource(ps) : ps \in SeqsUpTo(FetchPages, MaxPages - 1)} \cup {EndlessSource}
    \cup {ListSource(n) : n \in {0, 1, 999, 1000, 1001, 1999, 2000, 2001, 2500}}

InitFetch ==
    /\ source \in {SourceMap(s, EmptySource) : s \in FetchSources}
    /\ sink = <<>>
    /\ run = [r \in {1} |-> [IdleRun EXCEPT !.pc = "fetch"]]
    /\ clock = 1
    /\ started = 1
    /\ dirty = TRUE
    /\ page = <<>> /\ store = <<>> /\ scraper = IdleScraper /\ call = NoCall
    /\ hist = [log |-> <<>>, last |-> <<>>]

NextFetch == FetchPage(1)

SpecFetch == InitFetch /\ [][NextFetch]_vars

----------------------------------------------------------------------------
(* find_new_records on its own *)

\* frames of at most this many rows
MaxRows == 3

RowOf(item, currency_id) == parse_item(item, 0, currency_id).val

DeltaRows == {RowOf(ItemA, 14), RowOf(ItemB, 14), RowOf(ItemNull, 14), RowOf(ItemA, 15)}

DeltaFrames == {MakeFrame(q) : q \in SeqsUpTo(DeltaRows, MaxRows)}
DeltaKeyFrames == {KeyFrame(df) : df \in DeltaFrames}

\* after the second invocation hist.log holds the existing keys and the
\* result of the first
InitDelta ==
    /\ source = SourceMap(EmptySource, EmptySource)
    /\ sink = <<>>
    /\ \E X \in DeltaFrames, E \in DeltaKeyFrames :
          /\ run = [r \in {1} |-> [IdleRun EXCEPT !.pc = "detect", !.df_new = X,
                                                  !.df_existing_keys = E]]
          /\ hist = [log |-> <<>>, last |-> <<>>]
    /\ clock = 1
    /\ started = 1
    /\ dirty = TRUE
    /\ page = <<>> /\ store = <<>> /\ scraper = IdleScraper /\ call = NoCall

\* the second invocation: the existing keys are those of the first call
\* together with the keys of its result
DetectAgain(r) ==
    /\ run[r].pc \in {"save", "done"}
    /\ hist.log = <<>>
    /\ run' = [run EXCEPT ![r] = [@ EXCEPT !.pc = "detect",
                                           !.df_existing_keys = @ \o KeyFrame(run[r].df_delta)]]
    /\ hist' = [hist EXCEPT !.log = <<run[r].df_existing_keys, run[r].df_delta>>]
    /\ UNCHANGED <<page, store, scraper, call, source, sink, clock, started, dirty>>

NextDelta == Detect(1) \/ DetectAgain(1)

SpecDelta == InitDelta /\ [][NextDelta]_vars

----------------------------------------------------------------------------
(* The functions of the module called on their own *)

\* strings given to clean_persian_number hold at most this many characters
MaxLen == 3
\* endpoints in one pass of the loop of process_all_currency_data
MaxBatches == 2

Calling(fn, arg) == [fn |-> fn, pc |-> "ready", arg |-> arg, out |-> <<>>]

\* values given to JDate: 8-digit strings, real dates and others,
\* hyphenated strings, datetimes, and values of no supported shape
DateValues ==
    {D8(y, m, d) : y \in {0, 1, 999, 1000, 1403, 1404, 9377, 9378},
                   m \in {0, 1, 6, 7, 12, 13},
                   d \in {0, 1, 29, 30, 31, 32}}
    \cup {Iso(y, m, d) : y \in {2022, 2023, 2024}, m \in {2, 3, 13}, d \in {20, 21, 29, 30}}
    \cup {PyDatetime(2022, 3, 21), PyDatetime(2024, 3, 20), PyDatetime(2025, 3, 20)}
    \cup {PyNone, NullStr, PyStr(<<>>), PyInt(0), PyInt(14010101),
          PyStr(<<"a", "b", "c">>),
          PyStr(<<"a", "-", "b">>),
          PyStr(<<"1", "4", "0", "1", "/", "0", "1", "/", "0", "1">>),
          PyStr(<<"1", "4", "0", "1", "0", "1", "1">>),
          PyStr(<<"p1", "p4", "p0", "p1", "p0", "p1", "p0", "p1">>),
          PyStr(<<"2", "0", "2", "2", "-", "3", "-", "2", "1">>),
          PyStr(<<"2", "0", "2", "2", "-", "0", "3">>)}

\* raw items given to parse_item, and the instrument ids (99 has no entry
\* in CURRENCY_META)
ParseValues ==
    {RawItem(d, p, q) :
        d \in {D8(1401, 1, 1), D8(1401, 13, 1), Iso(2022, 3, 21), Iso(2022, 2, 30),
               PyNone, NullStr},
        p \in {PyStr(<<"2", "8", "5", "0", "0">>), PyStr(<<"2", "8", "3", "0", "0">>),
               PyStr(<<"2", "9", ".", "7">>), PyStr(<<"-", "3", ".", "9">>), PyStr(<<"0">>),
               PyInt(0), PyInt(29), NullStr, PyNone},
        q \in {PyStr(<<"2", "8", "3", "0", "0">>), PyInt(0), PyNone}}
    \cup {ItemA, ItemB, ItemNull, ItemIso, ItemBadPrice}

\* the items fetched for one endpoint, with its instrument id
ItemBatches ==
    {[items |-> q, currency_id |-> id] :
        q \in {<<>>, <<ItemA>>, <<ItemA, ItemB>>, <<ItemNull>>}, id \in {14, 15, 99}}

\* texts given to clean_persian_number
CleanValues ==
    {PyStr(q) : q \in SeqsUpTo({"1", "0", "p2", "a3", ",", "x"}, MaxLen)} \cup {PyNone}

InitCall ==
    /\ source = SourceMap(EmptySource, EmptySource)
    /\ sink = <<>>
    /\ run = [r \in {1} |-> IdleRun]
    /\ hist = [log |-> <<>>, last |-> <<>>]
    /\ clock = 1
    /\ started = 0
    /\ dirty = TRUE
    /\ page = <<>> /\ store = <<>> /\ scraper = IdleScraper
    /\ \/ \E v \in DateValues : call = Calling("JDate.format", v)
       \/ \E v \in ParseValues, id \in {14, 35, 99} : call = Calling("parse_item", <<v, id>>)
       \/ \E v \in CleanValues : call = Calling("clean_persian_number", v)
       \/ \E bs \in SeqsUpTo(ItemBatches, MaxBatches) :
             call = [Calling("process_all_currency_data", bs) EXCEPT
                         !.out = [exc |-> "", at |-> "", rows |-> <<>>, k |-> 1]]

Returned(out) ==
    /\ call' = [call EXCEPT !.pc = "returned", !.out = out]
    /\ UNCHANGED <<source, sink, run, clock, started, dirty, hist, page, store, scraper>>

\* JDate(value).format('Y-m-d')
FormatDate ==
    /\ call.fn = "JDate.format" /\ call.pc = "ready"
    /\ Returned(JDateFormat(call.arg, FmtYmd))

ParseOne ==
    /\ call.fn = "parse_item" /\ call.pc = "ready"
    /\ Returned(parse_item(call.arg[1], 0, call.arg[2]))

CleanNumber ==
    /\ call.fn = "clean_persian_number" /\ call.pc = "ready"
    /\ Returned(Ok(clean_persian_number(call.arg)))

\* one pass of the outer loop of process_all_currency_data over the items
\* of the next endpoint; an exception leaves the function
ParseBatch ==
    /\ call.fn = "process_all_currency_data" /\ call.pc = "ready"
    /\ call.out.k <= Len(call.arg)
    /\ LET out == ParseLoop(call.arg[call.out.k].items, 0,
                            call.arg[call.out.k].currency_id, call.out.rows)
       IN  call' = [call EXCEPT
                       !.out = [exc |-> out.exc, at |-> out.at, rows |-> out.rows,
                                k |-> call.out.k + 1],
                       !.pc = IF out.exc # "" \/ call.out.k = Len(call.arg)
                              THEN "returned" ELSE "ready"]
    /\ UNCHANGED <<source, sink, run, clock, started, dirty, hist, page, store, scraper>>

NextCall == FormatDate \/ ParseOne \/ CleanNumber \/ ParseBatch

SpecCall == InitCall /\ [][NextCall]_vars

----------------------------------------------------------------------------
(* The scraper of the rendered page (ice_scraper.py) *)

\* a float, by its integer part: the date and the price both go through
\* int() or astype('int64'), which drop the fraction
PyFloat(n) == [t |-> "float", v |-> <<n>>]

\* re.sub(r'[^\d.]', '', s)
RECURSIVE StripNonNumeric(_)
StripNonNumeric(s) ==
    IF s = <<>> THEN <<>>
    ELSE IF IsUnicodeDigit(Head(s)) \/ Head(s) = "." THEN <<Head(s)>> \o StripNonNumeric(Tail(s))
    ELSE StripNonNumeric(Tail(s))

\* float(cleaned) if cleaned else None, None also for ValueError
CleanedFloat(cleaned) ==
    IF cleaned = <<>> \/ FloatBody(1, cleaned).exc # "" THEN PyNone
    ELSE PyFloat(FloatBody(1, cleaned).val.v[1])

\* ICEScraper.clean_persian_number on the text of a page element
ICEScraper_clean_persian_number(text) ==
    IF text = <<>> THEN PyNone ELSE CleanedFloat(StripNonNumeric(Translate(text)))

SlashJoin(s) ==
    IF Len(s) = 8
    THEN PyStr(Slice(s, 0, 4) \o <<"/">> \o Slice(s, 4, 6) \o <<"/">> \o Slice(s, 6, 8))
    ELSE PyStr(s)

\* ICEScraper.correct_date_format: str(int(float(text))) with slashes when
\* it has 8 digits; for None the TypeError is caught and 'None' returned
ICEScraper_correct_date_format(x) ==
    IF x.t # "float" THEN PyStr(<<"N", "o", "n", "e">>) ELSE SlashJoin(Pad(x.v[1], 1))

\* pd.to_numeric(errors='coerce').fillna(0).astype('int64')
ScrapedPrice(x) == IF x.t = "float" THEN PyInt(x.v[1]) ELSE PyInt(0)

ScrapedRow(raw_data, i, now) ==
    [Date |-> ICEScraper_correct_date_format(ICEScraper_clean_persian_number(raw_data.dates[i])),
     Name |-> raw_data.names[i],
     Price |-> ScrapedPrice(ICEScraper_clean_persian_number(raw_data.prices[i])),
     ScrapeDate |-> now,
     ScrapeTime |-> now]

ScrapedKey(row) == <<row.Date, row.Name>>

\* df.drop_duplicates(subset=['Date', 'Name'], keep='first')
RECURSIVE DropDuplicates(_, _)
DropDuplicates(rows, seen) ==
    IF rows = <<>> THEN <<>>
    ELSE IF ScrapedKey(Head(rows)) \in seen THEN DropDuplicates(Tail(rows), seen)
    ELSE <<Head(rows)>> \o DropDuplicates(Tail(rows), seen \cup {ScrapedKey(Head(rows))})

\* _process_scraped_data on lists of one length
ICEScraper_process_scraped_data(raw_data, now) ==
    DropDuplicates([i \in 1..Len(raw_data.dates) |-> ScrapedRow(raw_data, i, now)], {})

\* df.to_sql(table_name, if_exists='append'): the table after the insert
ICEScraper_save_to_database(df, table) ==
    table \o [i \in 1..Len(df) |-> [df[i] EXCEPT !.Date = CharN(@, 10)]]

\* main_exit that reports success whatever scrape_and_store returned
main_exit_zero(success) == 0

\* sys.exit(0) if success else sys.exit(1)
main_exit(success) == IF success THEN 0 ELSE 1

\* the exceptions of a page load; tenacity retries the first two
LoadErrors == {"TimeoutException", "WebDriverException", "Exception"}
\* RetriedErrors with every exception retried
EveryErrorRetried == LoadErrors
RetriedErrors == {"TimeoutException", "WebDriverException"}

\* scrape_and_store is called by main
StartScrape ==
    /\ scraper.pc \in {"idle", "exited"}
    /\ scraper.runs < MaxRuns
    /\ scraper' = [IdleScraper EXCEPT !.pc = "load", !.tenacity = scraper.tenacity,
                                      !.runs = scraper.runs + 1]
    /\ UNCHANGED <<source, sink, run, clock, started, dirty, hist, page, store, call>>

\* the `except Exception` of scrape_and_store: return False, None
WorkflowFailed(sc, e, at) ==
    /\ scraper' = [sc EXCEPT !.pc = "returned", !.exc = e, !.at = at,
                             !.returned = <<FALSE, PyNone>>]
    /\ UNCHANGED <<source, sink, run, clock, started, dirty, hist, page, store, call>>

\* one attempt of _load_with_retry; load_exc is the exception of the
\* latest attempt, the one that is logged before the wait and re-raised
\* at the end
LoadPage ==
    /\ scraper.pc = "load"
    /\ \/ /\ scraper' = [scraper EXCEPT !.attempts = @ + 1, !.load_exc = "", !.pc = "extract"]
          /\ UNCHANGED <<source, sink, run, clock, started, dirty, hist, page, store, call>>
       \/ \E e \in LoadErrors :
             IF scraper.tenacity /\ e \in RetriedErrors /\ scraper.attempts + 1 < max_attempts
             THEN /\ scraper' = [scraper EXCEPT !.attempts = @ + 1, !.load_exc = e]
                  /\ UNCHANGED <<source, sink, run, clock, started, dirty, hist, page, store, call>>
             ELSE WorkflowFailed([scraper EXCEPT !.attempts = @ + 1, !.load_exc = e], e, "load")

\* _extract_data_from_html: ValueError when no date was found
ExtractData ==
    /\ scraper.pc = "extract"
    /\ IF page.dates = <<>>
       THEN WorkflowFailed(scraper, "ValueError", "extract")
       ELSE /\ scraper' = [scraper EXCEPT !.raw_data = page, !.pc = "process"]
            /\ UNCHANGED <<source, sink, run, clock, started, dirty, hist, page, store, call>>

\* _process_scraped_data: pd.DataFrame raises ValueError for lists of
\* different lengths
ProcessData ==
    /\ scraper.pc = "process"
    /\ IF ~(Len(scraper.raw_data.dates) = Len(scraper.raw_data.names)
            /\ Len(scraper.raw_data.names) = Len(scraper.raw_data.prices))
       THEN WorkflowFailed(scraper, "ValueError", "process")
       ELSE /\ scraper' = [scraper EXCEPT
                              !.processed_df = ICEScraper_process_scraped_data(scraper.raw_data, scraper.runs),
                              !.pc = "save"]
            /\ UNCHANGED <<source, sink, run, clock, started, dirty, hist, page, store, call>>

\* _save_to_database returns True, or False for any error of the
\* database; scrape_and_store returns success, df if success else None
SaveScraped ==
    /\ scraper.pc = "save"
    /\ \/ /\ store' = ICEScraper_save_to_database(scraper.processed_df, store)
          /\ scraper' = [scraper EXCEPT !.pc = "returned", !.success = TRUE,
                                        !.returned = <<TRUE, scraper.processed_df>>]
          /\ UNCHANGED <<source, sink, run, clock, started, dirty, hist, page, call>>
       \/ /\ scraper' = [scraper EXCEPT !.pc = "returned", !.success = FALSE,
                                        !.exc = "SQLAlchemyError", !.at = "save",
                                        !.returned = <<FALSE, PyNone>>]
          /\ UNCHANGED <<source, sink, run, clock, started, dirty, hist, page, store, call>>

\* main: the exit status of the process
ExitMain ==
    /\ scraper.pc = "returned"
    /\ scraper' = [scraper EXCEPT !.pc = "exited", !.exit = main_exit(scraper.returned[1])]
    /\ UNCHANGED <<source, sink, run, clock, started, dirty, hist, page, store, call>>

\* the exit status of the process that ran incremental_load: an exception
\* that nothing catches ends the interpreter with status 1
ExitStatus(rr) == IF rr.pc = "raised" THEN 1 ELSE 0

PageOf(rows) ==
    [dates |-> [i \in 1..Len(rows) |-> rows[i][1]],
     names |-> [i \in 1..Len(rows) |-> rows[i][2]],
     prices |-> [i \in 1..Len(rows) |-> rows[i][3]]]

\* the texts of the date, name and price elements of one row of the page
PageRows ==
    {<<<<"p1", "p4", "p0", "p4", "/", "p0", "p1", "/", "p0", "p1">>, "sekke",
       <<"p1", "p2", "p3", ",", "p4", "p5", "p6">>>>,
     <<<<"1", "4", "0", "4", "/", "0", "1", "/", "0", "2">>, "sekke", <<"7", "8", ".", "5">>>>,
     <<<<"p1", "p4", "p0", "p4", "/", "p0", "p1", "/", "p0", "p1">>, "tala", <<>>>>,
     <<<<>>, "tala", <<"p1", "p2", "p3", ",", "p4", "p5", "p6">>>>}

\* pages of up to two rows, and pages that lack the name of the last row
ScrapePages ==
    {PageOf(q) : q \in SeqsUpTo(PageRows, 2)}
    \cup {[PageOf(q) EXCEPT !.names = Tail(@)] : q \in SeqsUpTo(PageRows, 2) \ SeqsUpTo(PageRows, 1)}

ScrapeProceed ==
    \/ LoadPage
    \/ ExtractData
    \/ ProcessData
    \/ SaveScraped
    \/ ExitMain

\* the scraper run from time to time against an unchanging page
InitScrape ==
    /\ source = SourceMap(EmptySource, EmptySource)
    /\ sink = <<>>
    /\ run = [r \in {1} |-> IdleRun]
    /\ clock = 1
    /\ started = 0
    /\ dirty = TRUE
    /\ hist = [log |-> <<>>, last |-> <<>>]
    /\ page \in ScrapePages
    /\ store = <<>>
    /\ \E t \in BOOLEAN : scraper = [IdleScraper EXCEPT !.tenacity = t]
    /\ call = NoCall

SpecScrape == InitScrape /\ [][StartScrape \/ ScrapeProceed]_vars

\* the two jobs of the repository, each with its own table: MaxRuns
\* processes are started in all
InitJobs ==
    /\ source \in {SourceMap(OnePage(q), EmptySource) : q \in {<<>>, <<ItemA>>}}
    /\ sink = <<>>
    /\ run = [r \in {1} |-> IdleRun]
    /\ clock = 1
    /\ started = 0
    /\ dirty = TRUE
    /\ hist = [log |-> <<>>, last |-> <<>>]
    /\ page \in {PageOf(q) : q \in SeqsUpTo(PageRows, 1)}
    /\ store = <<>>
    /\ scraper = IdleScraper
    /\ call = NoCall

NextJobs ==
    \/ started + scraper.runs < MaxRuns /\ \E r \in {1} : Start(r)
    \/ \E r \in {1} : Proceed(r)
    \/ started + scraper.runs < MaxRuns /\ StartScrape
    \/ ScrapeProceed

SpecJobs == InitJobs /\ [][NextJobs]_vars

----------------------------------------------------------------------------
(* Properties *)

NoDuplicates(q) == \A i, j \in 1..Len(q) : i # j => q[i] # q[j]
Occurrences(q, x) == Cardinality({i \in 1..Len(q) : q[i] = x})
SinkKeys == KeyFrame(sink)

\* C1: after any number of runs of incremental_load, no two rows of the
\* sink share the key triple (Date, Symbol, EnglishCurrencyType).
SinkKeysUnique == NoDuplicates(SinkKeys)

\* C2: a run that follows a completed run against an unchanged source
\* computes an empty delta, appends nothing and leaves the sink as the
\* first run left it.
RerunIdempotent ==
    ~dirty => (sink = hist.last /\ \A r \in Runs : run[r].pc # "save")

\* the rows of fresh whose key is not among the existing keys, in order
RECURSIVE NotAmong(_, _)
NotAmong(fresh, existing) ==
    IF fresh = <<>> THEN <<>>
    ELSE (IF \E j \in 1..Len(existing) : existing[j] = KeyOf(Head(fresh))
          THEN <<>> ELSE <<Head(fresh)>>) \o NotAmong(Tail(fresh), existing)

FirstCallDone == hist.log = <<>> /\ run[1].pc \in {"save", "done"}
SecondCallDone == hist.log # <<>> /\ run[1].pc \in {"save", "done"}

FindNewIdempotent ==
    (SecondCallDone /\ NoDuplicates(hist.log[1])) => run[1].df_delta = <<>>

FindNewIdempotentWitness ==
    /\ SecondCallDone
    /\ NoDuplicates(hist.log[1])
    /\ hist.log[1] # <<>>
    /\ Len(hist.log[2]) = 2
    /\ run[1].df_existing_keys = hist.log[1] \o KeyFrame(hist.log[2])
    /\ run[1].df_delta = <<>>

\* a record without the time it was scraped
Untimed(row) == [row EXCEPT !.ScrapeDate = 0, !.Scrapetime = 0, !.ScrapeDateTime = 0]
UntimedFrame(df) == [i \in 1..Len(df) |-> Untimed(df[i])]

\* both runs loaded the existing keys before either appended
BothLoadedFirst ==
    /\ Len(hist.log) >= 2
    /\ hist.log[1][2] = "load" /\ hist.log[2][2] = "load"
    /\ hist.log[1][1] # hist.log[2][1]
    /\ \A i \in 3..Len(hist.log) : hist.log[i][2] = "save"
    /\ \A r \in Runs : run[r].pc \in {"save", "done"}

\* C5: two runs over the same source and sink that both load the existing
\* keys before either appends compute the same delta, and once both have
\* appended it the sink holds every key of the delta at least twice.
ConcurrentRunsDoubleInsert ==
    (Runs = {1, 2} /\ BothLoadedFirst) =>
        /\ UntimedFrame(run[1].df_delta) = UntimedFrame(run[2].df_delta)
        /\ (\A r \in Runs : run[r].outcome = "inserted") =>
              \A i \in 1..Len(run[1].df_delta) :
                  Occurrences(SinkKeys, KeyOf(run[1].df_delta[i])) >= 2

ConcurrentRunsDoubleInsertWitness ==
    /\ Runs = {1, 2}
    /\ BothLoadedFirst
    /\ \A r \in Runs : run[r].outcome = "inserted"
    /\ run[1].df_delta # <<>>
    /\ ~NoDuplicates(SinkKeys)

\* the response to the request at this offset ends the loop
Stops(src, offset) ==
    \/ Respond(src, offset).results = <<>>
    \/ offset + PAGE_SIZE >=
          (IF Respond(src, offset).has_count THEN Respond(src, offset).count ELSE 0)

FetchedSource(r) == source[build_currency_urls[run[r].k].url.currency_id]

\* every page reports count 2500 and the first two pages hold items
Count2500(src) ==
    /\ src.kind = "pages"
    /\ Len(src.pages) >= 2
    /\ \A i \in 1..Len(src.pages) : src.pages[i].has_count /\ src.pages[i].count = 2500
    /\ src.pages[1].results # <<>> /\ src.pages[2].results # <<>>

\* C6: the requests of one fetch are those at offsets 0, 1000, ... up to
\* and including the first page that is empty or for which
\* offset + 1000 >= count, and none after it; against a source that
\* reports count 2500 they are the three at offsets 0, 1000 and 2000.
FetchStopsAtFirstStop ==
    \A r \in Runs :
        LET q == run[r].requests
        IN  (run[r].pc \in {"fetch", "parse"}) =>
              /\ \A i \in 1..Len(q) : q[i] = (i - 1) * PAGE_SIZE
              /\ \A i \in 1..(Len(q) - 1) : ~Stops(FetchedSource(r), q[i])
              /\ run[r].pc = "fetch" => \A i \in 1..Len(q) : ~Stops(FetchedSource(r), q[i])
              /\ run[r].pc = "parse" => (Len(q) >= 1 /\ Stops(FetchedSource(r), q[Len(q)]))
              /\ (run[r].pc = "parse" /\ Count2500(FetchedSource(r))) =>
                    q = <<0, PAGE_SIZE, 2 * PAGE_SIZE>>

FetchStopsAtFirstStopWitness ==
    /\ run[1].pc = "parse"
    /\ Count2500(FetchedSource(1))
    /\ Len(FetchedSource(1).pages) = 3
    /\ run[1].requests = <<0, 1000, 2000>>
    /\ Len(run[1].all_results) >= 3

\* C7: against a source whose every page is non-empty and whose count
\* stays beyond the next offset, fetch_currency_history never returns:
\* after every answered request it is in the loop again, one page further.
EndlessFetchNeverReturns ==
    \A r \in Runs :
        FetchedSource(r).kind = "endless" =>
            /\ run[r].pc \in {"fetch", "raised"}
            /\ run[r].pc = "fetch" =>
                  /\ run[r].offset = Len(run[r].requests) * PAGE_SIZE
                  /\ Len(run[r].all_results) = Len(run[r].requests)

EndlessFetchNeverReturnsWitness ==
    /\ FetchedSource(1).kind = "endless"
    /\ run[1].pc = "fetch"
    /\ Len(run[1].requests) >= 3
    /\ run[1].offset >= 3 * PAGE_SIZE

\* C8: the failure of a page request propagates only after that request
\* has been retried, a bounded number of times.
PageRequestRetried ==
    \A r \in Runs :
        (run[r].pc = "raised" /\ run[r].at = "fetch") =>
            (run[r].attempts > 1 /\ run[r].attempts <= max_attempts)

\* C9: an endpoint whose page fetch fails for good does not end the run:
\* the remaining endpoints are fetched and their records produced.
FetchFailureSkipsEndpoint ==
    \A r \in Runs : ~(run[r].pc = "raised" /\ run[r].at = "fetch")

\* C10: a price that cannot be coerced to a number does not raise: the
\* field is null, the record is emitted and the batch goes on.
MalformedPriceDoesNotRaise ==
    \A r \in Runs : ~(run[r].pc = "raised" /\ run[r].at \in {"sell_price", "buy_price"})

----------------------------------------------------------------------------
(* Properties of the functions called on their own *)

CallReturned(fn) == call.fn = fn /\ call.pc = "returned"

\* a valid 8-digit date string, of a real date of the Jalali calendar
ValidEightDigits(v) ==
    /\ v.t = "str" /\ Len(v.v) = 8 /\ AllDigits(v.v)
    /\ JalaliValid(NumOf(Slice(v.v, 0, 4)), NumOf(Slice(v.v, 4, 6)), NumOf(Slice(v.v, 6, 8)))

\* a value of one of the three supported shapes that denotes a real date
ValidDateValue(v) ==
    \/ v.t = "datetime"
    \/ ValidEightDigits(v)
    \/ v.t = "str" /\ ~(Len(v.v) = 8 /\ AllDigits(v.v)) /\ Strptime(v.v) # <<>>

\* C11: JDate.format never raises: it returns None for None, for 'null'
\* and for every value that is no valid date of a supported shape, and
\* parse_item emits the record of such an item with a null Date.
DateFormatNeverRaises ==
    /\ CallReturned("JDate.format") =>
          /\ call.out.exc = ""
          /\ ~ValidDateValue(call.arg) => call.out.val = PyNone
    /\ (/\ CallReturned("parse_item")
        /\ call.arg[2] \in DOMAIN CURRENCY_META
        /\ ~ValidDateValue(call.arg[1].date)) =>
          /\ call.out.at # "date"
          /\ call.out.exc = "" => call.out.val.Date = PyNone

\* the price the record is to hold for a raw value that can be coerced
ExpectedPrice(raw) ==
    IF raw # PyNone /\ raw # NullStr THEN IntFloat(raw).val ELSE PyNone

\* C12: for a known instrument id each price of the record is the
\* truncated number of the raw value when that is present and not 'null',
\* a present zero included, and None otherwise; the two examples hold.
PricesCoerced ==
    (/\ CallReturned("parse_item")
     /\ call.arg[2] \in DOMAIN CURRENCY_META
     /\ call.out.exc = "") =>
        /\ call.out.val.SellPrice = ExpectedPrice(call.arg[1].sell_price)
        /\ call.out.val.BuyPrice = ExpectedPrice(call.arg[1].buy_price)
        /\ (call.arg[1] = ItemA /\ call.arg[2] = 14) =>
              /\ call.out.val.Date = PyStr(<<"1", "4", "0", "1", "-", "0", "1", "-", "0", "1">>)
              /\ call.out.val.Symbol = "USD"
              /\ call.out.val.SellPrice = PyInt(28500)
              /\ call.out.val.BuyPrice = PyInt(28300)
        /\ call.arg[1] = ItemNull =>
              /\ call.out.val.Date = PyNone
              /\ call.out.val.SellPrice = PyNone
              /\ call.out.val.BuyPrice = PyNone

\* the records of the batches whose instrument id has metadata, in order
RECURSIVE KnownRows(_)
KnownRows(bs) ==
    IF bs = <<>> THEN <<>>
    ELSE (IF Head(bs).currency_id \in DOMAIN CURRENCY_META
          THEN [i \in 1..Len(Head(bs).items) |-> RowOf(Head(bs).items[i], Head(bs).currency_id)]
          ELSE <<>>) \o KnownRows(Tail(bs))

\* C13: parse_item returns None without raising for an instrument id
\* without metadata, and the loop of process_all_currency_data skips such
\* items: they add no record and the other items are all processed.
UnknownInstrumentSkipped ==
    /\ (CallReturned("parse_item") /\ call.arg[2] \notin DOMAIN CURRENCY_META) =>
          call.out = [exc |-> "", at |-> "", val |-> PyNone]
    /\ CallReturned("process_all_currency_data") =>
          /\ call.out.exc = ""
          /\ call.out.k = Len(call.arg) + 1
          /\ call.out.rows = KnownRows(call.arg)

UnknownInstrumentSkippedWitness ==
    /\ CallReturned("process_all_currency_data")
    /\ Len(call.arg) = 2
    /\ call.arg[1].currency_id \notin DOMAIN CURRENCY_META
    /\ Len(call.arg[1].items) = 2
    /\ call.arg[2].currency_id \in DOMAIN CURRENCY_META
    /\ Len(call.arg[2].items) = 2
    /\ Len(call.out.rows) = 2

\* the three parts of a formatted date, split on the separator
DateParts(s) == <<Before(s, "-"), Before(After(s, "-"), "-"), After(After(s, "-"), "-")>>

\* C14: for a valid 8-digit date string the formatted date, split on the
\* separator, gives the year, month and day of the digits 0-3, 4-5 and
\* 6-7, in 4, 2 and 2 digits.
DateRoundTrip ==
    (CallReturned("JDate.format") /\ ValidEightDigits(call.arg)) =>
        /\ call.out.exc = ""
        /\ call.out.val.t = "str"
        /\ LET parts == DateParts(call.out.val.v)
           IN  /\ NumOf(parts[1]) = NumOf(Slice(call.arg.v, 0, 4))
               /\ NumOf(parts[2]) = NumOf(Slice(call.arg.v, 4, 6))
               /\ NumOf(parts[3]) = NumOf(Slice(call.arg.v, 6, 8))
               /\ Len(parts[1]) = 4 /\ Len(parts[2]) = 2 /\ Len(parts[3]) = 2

HasDigit(s) == \E i \in 1..Len(s) : IsAsciiDigit(s[i]) \/ IsPersianDigit(s[i])
AsciiTransliteration(s) == SelectSeq(Translate(s), IsAsciiDigit)

\* C15: clean_persian_number never raises; it returns None for None, for
\* the empty text and for a text without a digit, and otherwise the text
\* with the Persian digits as ASCII digits and every other character that
\* is no ASCII digit removed.
CleanNumberAsciiOnly ==
    CallReturned("clean_persian_number") =>
        /\ call.out.exc = ""
        /\ IF call.arg = PyNone \/ ~HasDigit(call.arg.v)
           THEN call.out.val = PyNone
           ELSE /\ call.out.val = PyStr(AsciiTransliteration(call.arg.v))
                /\ \A i \in 1..Len(call.out.val.v) : IsAsciiDigit(call.out.val.v[i])

----------------------------------------------------------------------------
(* Properties of the two jobs *)

\* C16: the process exits with a status other than zero when the fetch
\* produced no data or the append failed, and with zero when the run
\* succeeded, the run that finds nothing new included.
ExitStatusContract ==
    /\ \A r \in Runs :
          /\ (run[r].pc = "done" /\ run[r].outcome = "no_data") => ExitStatus(run[r]) # 0
          /\ (run[r].pc = "raised" /\ run[r].at = "save") => ExitStatus(run[r]) # 0
          /\ (run[r].pc = "done" /\ run[r].outcome \in {"inserted", "up_to_date"}) =>
                ExitStatus(run[r]) = 0
    /\ scraper.pc = "exited" =>
          /\ scraper.at \in {"load", "extract", "save"} => scraper.exit # 0
          /\ scraper.success => scraper.exit = 0

\* the sink operations of run r in the log
SinkOps(r) == SelectSeq(hist.log, LAMBDA e : e[1] = r)

\* C17: in one run the append is the only operation that changes the
\* sink; it is made at most once, after every endpoint was fetched, the
\* existing keys were loaded and the delta was computed, and not at all
\* when the fetch or the delta is empty.
AppendOnceAfterDetection ==
    /\ [](\A r \in Runs :
            /\ run[r].appends <= 1
            /\ run[r].outcome \in {"no_data", "up_to_date"} => run[r].appends = 0
            /\ run[r].outcome = "no_data" => run[r].df_new = <<>>
            /\ run[r].outcome = "up_to_date" => run[r].df_delta = <<>>
            /\ run[r].appends = 1 =>
                  /\ run[r].pc = "done" /\ run[r].outcome = "inserted"
                  /\ run[r].k = Len(build_currency_urls)
                  /\ run[r].df_new # <<>> /\ run[r].df_delta # <<>>
                  /\ run[r].df_delta = find_new_records(run[r].df_new, run[r].df_existing_keys)
                  /\ SinkOps(r) = <<<<r, "load">>, <<r, "save">>>>)
    /\ [][sink' # sink =>
            \E r \in Runs :
                /\ run[r].pc = "save" /\ run'[r].pc = "done"
                /\ run'[r].appends = run[r].appends + 1
                /\ sink' = save_to_database(run[r].df_delta, sink)]_vars

AppendOnceAfterDetectionWitness ==
    /\ run[1].appends = 1
    /\ Len(run[1].df_new) = 3
    /\ Len(run[1].df_delta) = 2
    /\ Len(sink) = 3
    /\ started = 2

IsPrefix(p, q) == Len(p) <= Len(q) /\ SubSeq(q, 1, Len(p)) = p

\* C18: the sink is append-only: every step keeps the rows of the sink as
\* they are, and of the fresh records of a run those whose key is already
\* present are discarded and all the others appended.
SinkAppendOnly ==
    [][/\ IsPrefix(sink, sink')
       /\ \A r \in Runs :
             (run[r].pc = "detect" /\ run'[r].pc # "detect") =>
                run'[r].df_delta = NotAmong(run[r].df_new, run[r].df_existing_keys)
       /\ \A r \in Runs :
             (run[r].pc = "save" /\ run'[r].pc = "done") =>
                sink' = sink \o [i \in 1..Len(run[r].df_delta) |->
                                   [run[r].df_delta[i] EXCEPT !.Date = CharN(@, 10)]]]_vars

\* the frame alone: no step removes or changes a row of the sink
SinkRowsKept == [][IsPrefix(sink, sink')]_vars

\* C19: a failure of the sink ends the run of incremental_load with the
\* error, with no sink operation after it and a failing exit status; in
\* the scraper it makes scrape_and_store return (False, None) and the
\* process exit with a status other than zero.
SinkFailureIsFatal ==
    /\ \A r \in Runs :
          (run[r].pc = "raised" /\ run[r].at \in {"load", "save"}) =>
              /\ run[r].exc = "SQLAlchemyError"
              /\ ExitStatus(run[r]) # 0
              /\ run[r].appends = 0 /\ run[r].outcome = ""
              /\ sink = hist.last
              /\ SinkOps(r) = IF run[r].at = "load" THEN <<>> ELSE <<<<r, "load">>>>
    /\ (scraper.at = "save" /\ scraper.pc \in {"returned", "exited"}) =>
          /\ scraper.returned = <<FALSE, PyNone>>
          /\ ~scraper.success
          /\ scraper.pc = "exited" => scraper.exit # 0

SinkFailureIsFatalWitness ==
    /\ run[1].pc = "raised" /\ run[1].at = "save"
    /\ run[1].df_delta # <<>>
    /\ sink = <<>>
    /\ scraper.pc = "exited" /\ scraper.at = "save"
    /\ scraper.processed_df # <<>>
    /\ scraper.exit = 1
    /\ store = <<>>

\* C20: the scraper appends only rows whose key (Date, Name) the store
\* does not hold yet, so a second run against the unchanged page adds no
\* row.
ScraperAppendsOnlyNew ==
    \A i, j \in 1..Len(store) : i # j => ScrapedKey(store[i]) # ScrapedKey(store[j])

----------------------------------------------------------------------------
(* Properties of the fetched record set and of the static tables *)

\* C21: the frame that process_all_currency_data returns in one run holds
\* no two records with the same key (Date, Symbol, EnglishCurrencyType).
FetchedKeysUnique ==
    \A r \in Runs :
        run[r].pc \in {"load", "detect", "save"} => NoDuplicates(KeyFrame(run[r].df_new))

\* the fresh rows at two positions share a key that no existing key equals
SharedNewKey(i, j) ==
    /\ i # j
    /\ KeyOf(run[1].df_new[i]) = KeyOf(run[1].df_new[j])
    /\ Occurrences(run[1].df_existing_keys, KeyOf(run[1].df_new[i])) = 0

\* C22: find_new_records does not deduplicate its input: fresh records
\* that share a key that no existing key equals are all returned.
DuplicatePassthrough ==
    FirstCallDone =>
        \A i, j \in 1..Len(run[1].df_new) :
            SharedNewKey(i, j) =>
                Occurrences(KeyFrame(run[1].df_delta), KeyOf(run[1].df_new[i]))
                    = Occurrences(KeyFrame(run[1].df_new), KeyOf(run[1].df_new[i]))

\* the same over existing keys that are a set: this part holds
DuplicatePassthroughOverKeySet ==
    NoDuplicates(run[1].df_existing_keys) => DuplicatePassthrough

\* C23: every request of the fetch loop carries limit 1000; the first has
\* offset 0 and each later one the previous offset plus 1000, whatever the
\* number of items of the page before: the offsets are strictly
\* increasing multiples of 1000, none requested twice in one fetch.
RequestOffsetsStep ==
    \A r \in Runs :
        LET q == run[r].requests
        IN  /\ q # <<>> => (run[r].limit = 1000 /\ q[1] = 0)
            /\ \A i \in 2..Len(q) : q[i] = q[i - 1] + 1000
            /\ \A i \in 1..Len(q) : q[i] % 1000 = 0
            /\ \A i, j \in 1..Len(q) : i < j => q[i] < q[j]
            /\ run[r].pc = "fetch" => run[r].offset = 1000 * Len(q)

\* two requests, each answered with a page of a single item, and the
\* third about to be sent
RequestOffsetsStepWitness ==
    /\ run[1].pc = "fetch"
    /\ run[1].requests = <<0, 1000>>
    /\ run[1].limit = 1000
    /\ Len(run[1].all_results) = 2
    /\ run[1].offset = 2000
    /\ FetchedSource(1).kind = "pages"

\* C24: the page load is attempted at most max_attempts times. It is
\* attempted again only after a TimeoutException or WebDriverException
\* and only with tenacity; it ends at the first attempt that succeeds;
\* when the attempts are exhausted the last exception is raised; any
\* other exception, or any exception without tenacity, is raised at once.
LoadRetriedWithinLimit ==
    /\ [](scraper.attempts <= max_attempts)
    /\ [][(scraper.pc = "load" /\ scraper' # scraper) =>
            /\ scraper'.attempts = scraper.attempts + 1
            /\ scraper'.pc = "load" =>
                  /\ scraper.tenacity
                  /\ scraper'.load_exc \in {"TimeoutException", "WebDriverException"}
                  /\ scraper'.attempts < max_attempts
            /\ scraper'.pc = "extract" => scraper'.load_exc = ""
            /\ scraper'.pc \notin {"load", "extract"} =>
                  /\ scraper'.pc = "returned" /\ scraper'.at = "load"
                  /\ scraper'.exc = scraper'.load_exc /\ scraper'.exc # ""
                  /\ \/ scraper'.attempts = max_attempts
                     \/ ~scraper.tenacity
                     \/ scraper'.exc \notin {"TimeoutException", "WebDriverException"}
            /\ (~scraper.tenacity \/ scraper'.load_exc = "Exception") => scraper'.pc # "load"]_vars
    /\ [][scraper.pc \notin {"load", "idle", "exited"} =>
            scraper'.attempts = scraper.attempts]_vars

\* the attempts are exhausted and the last exception has been raised
LoadRetriedWithinLimitWitness ==
    /\ scraper.pc = "returned" /\ scraper.at = "load"
    /\ scraper.tenacity
    /\ scraper.attempts = max_attempts
    /\ scraper.exc = "TimeoutException"

\* C25: find_new_records returns the rows of fresh whose key is absent
\* from the existing keys, each at its position, whether or not the
\* existing-key frame holds a key on several rows.
FindNewIgnoresRepeatedKeys ==
    FirstCallDone => run[1].df_delta = NotAmong(run[1].df_new, run[1].df_existing_keys)

\* the key of a fresh record as the table stores it
StoredKey(row) == KeyOf([row EXCEPT !.Date = CharN(@, 10)])

\* C26: when a run of incremental_load completes without error, the sink
\* holds the key of every record fetched in that run.
RunComplete ==
    \A r \in Runs :
        (run[r].pc = "done" /\ run[r].outcome \in {"inserted", "up_to_date"}) =>
            \A i \in 1..Len(run[r].df_new) :
                Occurrences(SinkKeys, StoredKey(run[r].df_new[i])) > 0

\* C27: against a source that holds a fixed list of N records, reports
\* count = N on every page and answers each request with the records at
\* the positions [offset, offset + limit), fetch_currency_history returns
\* all N records, each once and in the order of the source.
FetchReturnsWholeList ==
    \A r \in Runs :
        (FetchedSource(r).kind = "list" /\ run[r].pc = "parse") =>
            run[r].all_results = FetchedSource(r).records

\* a list of 2500 records fetched with three requests
FetchReturnsWholeListWitness ==
    /\ FetchedSource(1).kind = "list"
    /\ run[1].pc = "parse"
    /\ Len(FetchedSource(1).records) = 2500
    /\ run[1].requests = <<0, 1000, 2000>>
    /\ Len(run[1].all_results) = 2500
    /\ NoDuplicates(run[1].all_results)

\* C28: when the fetch of an endpoint raises, the run ends with that
\* exception before the existing keys are loaded and before any append:
\* the sink is as it was, also when earlier endpoints were fetched.
FetchFailureLeavesSink ==
    /\ [](\A r \in Runs :
            (run[r].pc = "raised" /\ run[r].at = "fetch") =>
                /\ run[r].exc = "RequestException"
                /\ SinkOps(r) = <<>>
                /\ run[r].df_existing_keys = <<>> /\ run[r].df_delta = <<>>
                /\ run[r].appends = 0
                /\ sink = hist.last)
    /\ [][\A r \in Runs :
            (run[r].pc = "fetch" /\ run'[r].pc = "raised") =>
                (run'[r].at = "fetch" /\ sink' = sink)]_vars

\* the second endpoint fails after the first gave records, with a sink
\* that an earlier run filled
FetchFailureLeavesSinkWitness ==
    /\ run[1].pc = "raised" /\ run[1].at = "fetch"
    /\ run[1].k = 2
    /\ run[1].all_data # <<>>
    /\ sink # <<>>

\* the first page of the source holds items and carries no count
FirstPageWithoutCount(src) ==
    /\ src.kind = "pages" /\ src.pages # <<>>
    /\ ~src.pages[1].has_count /\ src.pages[1].results # <<>>

KeyPart(id) == <<CURRENCY_META[id].symbol, CURRENCY_TYPES[id]>>

\* C30: the static tables are consistent: every instrument of
\* CURRENCY_TYPES has an entry in CURRENCY_META, so no endpoint is skipped
\* as unknown; two instruments never give the same symbol and
\* transaction type, so the records of two endpoints never share a key;
\* build_currency_urls gives market 1 to the Bill instruments and market
\* 2 to all the others.
TablesConsistent ==
    /\ DOMAIN CURRENCY_TYPES \subseteq DOMAIN CURRENCY_META
    /\ \A a, b \in DOMAIN CURRENCY_TYPES : a # b => KeyPart(a) # KeyPart(b)
    /\ {build_currency_urls[k].currency_id : k \in DOMAIN build_currency_urls}
          = DOMAIN CURRENCY_TYPES
    /\ Len(build_currency_urls) = Cardinality(DOMAIN CURRENCY_TYPES)
    /\ \A k \in DOMAIN build_currency_urls :
          /\ build_currency_urls[k].ctype = CURRENCY_TYPES[build_currency_urls[k].currency_id]
          /\ build_currency_urls[k].url.currency_id = build_currency_urls[k].currency_id
          /\ build_currency_urls[k].url.market =
                (IF CURRENCY_TYPES[build_currency_urls[k].currency_id] = "Bill" THEN 1 ELSE 2)
    /\ \A r \in Runs :
          run[r].pc \in {"fetch", "parse"} =>
              /\ build_currency_urls[run[r].k].currency_id \in DOMAIN CURRENCY_META
              /\ \A i \in 1..Len(run[r].all_data) :
                    <<run[r].all_data[i].Symbol, run[r].all_data[i].EnglishCurrencyType>>
                        # KeyPart(build_currency_urls[run[r].k].currency_id)

\* the records of two endpoints for the same date, every endpoint fetched
TablesConsistentWitness ==
    /\ run[1].pc = "load"
    /\ run[1].k = Len(build_currency_urls)
    /\ \E i, j \in 1..Len(run[1].df_new) :
          /\ run[1].df_new[i].Date = run[1].df_new[j].Date
          /\ run[1].df_new[i].Symbol = run[1].df_new[j].Symbol
          /\ run[1].df_new[i].EnglishCurrencyType = "Bill"
          /\ run[1].df_new[j].EnglishCurrencyType = "WireTransfer"

====
